---- MODULE Spec2Model ----
(***************************************************************************)
(* The generic resource pool of src/unnamed/part_001 (class Pool), which    *)
(* is the superset of src/lib/pool.js: the latter is the same state         *)
(* machine with validateAsync absent, refreshIdle = true and                *)
(* returnToHead = false.                                                    *)
(*                                                                          *)
(* Every handler of the pool runs to completion on one JavaScript thread,   *)
(* so a handler is one action.  A handler is written as an operator on a    *)
(* record s of the mutable state (the fields of the Pool object, the        *)
(* callbacks that are in flight, and what the callers and the factory have  *)
(* seen), because the handlers call one another (_dispense calls            *)
(* _createResource, destroy calls _ensureMinimum, ...).                     *)
(***************************************************************************)
EXTENDS Integers, Sequences, FiniteSets, TLC

\* ---------------------------------------------------------------- bounds
MaxAcquires == 3     \* acquire() calls made by the callers
MaxCreated == 3      \* handles the factory produces (ids 1..MaxCreated)
MaxMax == 2          \* largest factory.max of a configuration

Handles == 1..MaxCreated

VARIABLES
  factory,               \* this._factory: min, max, validateAsync, refreshIdle, returnToHead, syncCreate
  count,                 \* this._count
  draining,              \* this._draining
  waitingClients,        \* this._waitingClients: queue of acquire callbacks (waiter ids)
  inUseObjects,          \* this._inUseObjects: array of handles
  availableObjects,      \* this._availableObjects: array of {obj, timeout}; expired stands for now >= timeout
  asyncTestObjects,      \* this._asyncTestObjects: handles whose validateAsync is in flight
  removeIdleScheduled,   \* this._removeIdleScheduled
  removeIdleTimer,       \* this._removeIdleTimer: TRUE while the setTimeout is pending
  pendingCreates,        \* factory.create calls whose callback has not run yet
  pendingTicks,          \* process.nextTick(_dispense) callbacks not run yet
  drainState,            \* drain(): "idle", "polling" (setTimeout(check)), "immediate" (setImmediate(callback)), "done"
  created,               \* handles produced by the factory so far (the next id is created + 1)
  destroyCalls,          \* destroyCalls[h]: number of factory.destroy(h) calls
  broken,                \* handles for which factory.validate / validateAsync answers false
  createFails,           \* a synchronous factory.create answers with an error
  acquired,              \* acquire() calls that enqueued a callback (waiters 1..acquired)
  rejected,              \* acquire() calls that threw "pool is draining and cannot accept work"
  served,                \* the callback invocations in order: [w |-> waiter, kind |-> "ok" | "err"]
  holding,               \* <<w, h>>: caller w received handle h and has not given it back
  threw,                 \* a handler raised a TypeError (a call of an undefined callback)
  errorLog,              \* number of this._log(..., "error") calls
  immediates,            \* setImmediate(callback) of destroyAllNow scheduled and not run yet
  timers,                \* setTimeout callbacks of _scheduleRemoveIdle armed and neither run nor cleared
  constructed            \* new Pool(factory): "no" before the call, "ok", or the message of the Error thrown

vars == <<factory, count, draining, waitingClients, inUseObjects, availableObjects,
          asyncTestObjects, removeIdleScheduled, removeIdleTimer, pendingCreates,
          pendingTicks, drainState, created, destroyCalls, broken, createFails,
          acquired, rejected, served, holding, threw, errorLog, immediates, timers,
          constructed>>

\* The mutable state as one record, the argument and result of every handler.
State ==
  [count |-> count, draining |-> draining, waitingClients |-> waitingClients,
   inUseObjects |-> inUseObjects, availableObjects |-> availableObjects,
   asyncTestObjects |-> asyncTestObjects, removeIdleScheduled |-> removeIdleScheduled,
   removeIdleTimer |-> removeIdleTimer, pendingCreates |-> pendingCreates,
   pendingTicks |-> pendingTicks, drainState |-> drainState, created |-> created,
   destroyCalls |-> destroyCalls, broken |-> broken, acquired |-> acquired, rejected |-> rejected,
   served |-> served, holding |-> holding, threw |-> threw, errorLog |-> errorLog,
   immediates |-> immediates, timers |-> timers]

Apply(s) ==
  /\ count' = s.count
  /\ draining' = s.draining
  /\ waitingClients' = s.waitingClients
  /\ inUseObjects' = s.inUseObjects
  /\ availableObjects' = s.availableObjects
  /\ asyncTestObjects' = s.asyncTestObjects
  /\ removeIdleScheduled' = s.removeIdleScheduled
  /\ removeIdleTimer' = s.removeIdleTimer
  /\ pendingCreates' = s.pendingCreates
  /\ pendingTicks' = s.pendingTicks
  /\ drainState' = s.drainState
  /\ created' = s.created
  /\ destroyCalls' = s.destroyCalls
  /\ broken' = s.broken
  /\ acquired' = s.acquired
  /\ rejected' = s.rejected
  /\ served' = s.served
  /\ holding' = s.holding
  /\ threw' = s.threw
  /\ errorLog' = s.errorLog
  /\ immediates' = s.immediates
  /\ timers' = s.timers

\* ------------------------------------------------------------ array helpers
\* Array.prototype.splice(index, 1)
RemoveAt(seq, i) == SubSeq(seq, 1, i - 1) \o SubSeq(seq, i + 1, Len(seq))

\* Array.prototype.indexOf, 1-based; 0 when absent
IndexOf(seq, x) ==
  IF \E i \in 1..Len(seq) : seq[i] = x
  THEN CHOOSE i \in 1..Len(seq) : seq[i] = x /\ \A j \in 1..(i - 1) : seq[j] # x
  ELSE 0

Range(seq) == {seq[i] : i \in 1..Len(seq)}

AvailableHandles(avail) == {avail[i].obj : i \in 1..Len(avail)}

\* Denque.prototype.pop and peekFront, put by mistake where shift belongs
Pop(q) ==
  IF q = <<>> THEN [first |-> 0, rest |-> q]
  ELSE [first |-> q[Len(q)], rest |-> SubSeq(q, 1, Len(q) - 1)]

PeekFront(q) ==
  IF q = <<>> THEN [first |-> 0, rest |-> q]
  ELSE [first |-> Head(q), rest |-> q]

\* Denque.prototype.shift: the first element (0 for undefined) and the rest
Shift(q) ==
  IF q = <<>> THEN [first |-> 0, rest |-> q]
  ELSE [first |-> Head(q), rest |-> Tail(q)]

\* ------------------------------------------------------------ the handlers
RECURSIVE Dispense(_)
RECURSIVE CreateResource(_)
RECURSIVE DispenseLoop(_)
RECURSIVE DoWhileAsyncNext(_)

\* an acquire callback that takes whatever it is called with for a handle
ClientCbAlwaysHolds(s, w, kind, h) ==
  [s EXCEPT !.served = Append(@, [w |-> w, kind |-> kind]),
            !.holding = @ \cup {<<w, h>>}]

\* clientCb(err, obj): the acquire callback of waiter w runs
ClientCb(s, w, kind, h) ==
  [s EXCEPT !.served = Append(@, [w |-> w, kind |-> kind]),
            !.holding = IF kind = "ok" THEN @ \cup {<<w, h>>} ELSE @]

\* _scheduleRemoveIdle without the check of _removeIdleScheduled
ScheduleRemoveIdleUnguarded(s) ==
  [s EXCEPT !.removeIdleScheduled = TRUE, !.removeIdleTimer = TRUE,
            !.timers = @ + 1]

\* _scheduleRemoveIdle
ScheduleRemoveIdle(s) ==
  IF ~s.removeIdleScheduled
  THEN [s EXCEPT !.removeIdleScheduled = TRUE, !.removeIdleTimer = TRUE,
                 !.timers = @ + 1]
  ELSE s

\* _addResourceToAvailableObjects without the call of _dispense
AddResourceNoDispense(s, obj) ==
  LET objWithTimeout == [obj |-> obj, expired |-> FALSE]
      s1 == [s EXCEPT !.availableObjects =
                 IF factory.returnToHead THEN <<objWithTimeout>> \o @
                 ELSE Append(@, objWithTimeout)]
  IN ScheduleRemoveIdle(s1)

\* _addResourceToAvailableObjects without the call of _scheduleRemoveIdle
AddResourceNoSchedule(s, obj) ==
  LET objWithTimeout == [obj |-> obj, expired |-> FALSE]
      s1 == [s EXCEPT !.availableObjects =
                 IF factory.returnToHead THEN <<objWithTimeout>> \o @
                 ELSE Append(@, objWithTimeout)]
  IN Dispense(s1)

\* _addResourceToAvailableObjects pushing at the tail whatever returnToHead says
AddResourceAtTail(s, obj) ==
  LET objWithTimeout == [obj |-> obj, expired |-> FALSE]
      s1 == [s EXCEPT !.availableObjects = Append(@, objWithTimeout)]
  IN ScheduleRemoveIdle(Dispense(s1))

\* _addResourceToAvailableObjects
AddResourceToAvailableObjects(s, obj) ==
  LET objWithTimeout == [obj |-> obj, expired |-> FALSE]
      s1 == [s EXCEPT !.availableObjects =
                 IF factory.returnToHead THEN <<objWithTimeout>> \o @
                 ELSE Append(@, objWithTimeout)]
  IN ScheduleRemoveIdle(Dispense(s1))

\* the callback of factory.create leaving _count as it is when the create failed
CreateCallbackKeepsCount(s, error) ==
  LET clientCb == Shift(s.waitingClients).first
      hasCb == clientCb # 0
      s1 == [s EXCEPT !.waitingClients = Shift(@).rest]
  IN IF error
     THEN LET s3 == IF hasCb THEN ClientCb(s1, clientCb, "err", 0) ELSE s1
          IN [s3 EXCEPT !.pendingTicks = @ + 1]
     ELSE LET object == s1.created + 1
              s2 == [s1 EXCEPT !.created = object,
                               !.inUseObjects = Append(@, object)]
          IN IF hasCb THEN ClientCb(s2, clientCb, "ok", object)
             ELSE AddResourceToAvailableObjects(s2, object)

\* the callback of factory.create without the process.nextTick of the error branch
CreateCallbackNoRetry(s, error) ==
  LET clientCb == Shift(s.waitingClients).first
      hasCb == clientCb # 0
      s1 == [s EXCEPT !.waitingClients = Shift(@).rest]
  IN IF error
     THEN LET s2 == [s1 EXCEPT !.count = IF @ - 1 < 0 THEN 0 ELSE @ - 1]
          IN IF hasCb THEN ClientCb(s2, clientCb, "err", 0) ELSE s2
     ELSE LET object == s1.created + 1
              s2 == [s1 EXCEPT !.created = object,
                               !.inUseObjects = Append(@, object)]
          IN IF hasCb THEN ClientCb(s2, clientCb, "ok", object)
             ELSE AddResourceToAvailableObjects(s2, object)

\* the callback _createResource hands to factory.create
CreateCallback(s, error) ==
  LET clientCb == Shift(s.waitingClients).first
      hasCb == clientCb # 0
      s1 == [s EXCEPT !.waitingClients = Shift(@).rest]
  IN IF error
     THEN LET s2 == [s1 EXCEPT !.count = IF @ - 1 < 0 THEN 0 ELSE @ - 1]
              s3 == IF hasCb THEN ClientCb(s2, clientCb, "err", 0) ELSE s2
          IN [s3 EXCEPT !.pendingTicks = @ + 1]
     ELSE LET object == s1.created + 1
              s2 == [s1 EXCEPT !.created = object,
                               !.inUseObjects = Append(@, object)]
          IN IF hasCb THEN ClientCb(s2, clientCb, "ok", object)
             ELSE AddResourceToAvailableObjects(s2, object)

\* _createResource; a factory that calls back synchronously answers with an
\* error when it is failing or has given out its MaxCreated handles
CreateResource(s) ==
  LET s1 == [s EXCEPT !.count = @ + 1]
  IN IF factory.syncCreate
     THEN CreateCallback(s1, createFails \/ s1.created >= MaxCreated)
     ELSE [s1 EXCEPT !.pendingCreates = @ + 1]

\* _ensureMinimum
EnsureMinimum(s) ==
  LET CreateTimes[n \in 0..MaxMax] ==
        IF n = 0 THEN s ELSE CreateResource(CreateTimes[n - 1])
  IN IF ~s.draining /\ s.count < factory.min
     THEN CreateTimes[factory.min - s.count]
     ELSE s

\* destroy(resource) without the call of _ensureMinimum
DestroyResourceNoFloor(s, resource) ==
  [s EXCEPT
     !.count = IF @ - 1 < 0 THEN 0 ELSE @ - 1,
     !.availableObjects = SelectSeq(@, LAMBDA o : o.obj # resource),
     !.inUseObjects = SelectSeq(@, LAMBDA o : o # resource),
     !.destroyCalls = [@ EXCEPT ![resource] = @ + 1],
     !.broken = @ \ {resource}]

\* destroy(resource)
DestroyResource(s, resource) ==
  LET s1 == [s EXCEPT
               !.count = IF @ - 1 < 0 THEN 0 ELSE @ - 1,
               !.availableObjects = SelectSeq(@, LAMBDA o : o.obj # resource),
               !.inUseObjects = SelectSeq(@, LAMBDA o : o # resource),
               !.destroyCalls = [@ EXCEPT ![resource] = @ + 1],
               !.broken = @ \ {resource}]
  IN EnsureMinimum(s1)

\* _dispense without the check of _count against factory.max
CreateAlways(s) == CreateResource(s)

\* the end of _dispense: if (this._count < this._factory.max) this._createResource()
CreateIfBelowMax(s) ==
  IF s.count < factory.max THEN CreateResource(s) ELSE s

\* the loop of _dispense delivering the first idle handle without removing it
\* from _availableObjects
DispenseLoopKeepsIdle(s) ==
  IF Len(s.availableObjects) > 0
  THEN LET objWithTimeout == s.availableObjects[1]
       IN IF objWithTimeout.obj \in s.broken
          THEN DispenseLoop(DestroyResource(s, objWithTimeout.obj))
          ELSE LET s1 == [s EXCEPT !.inUseObjects = Append(@, objWithTimeout.obj)]
                   clientCb == Shift(s1.waitingClients).first
                   s2 == [s1 EXCEPT !.waitingClients = Shift(@).rest]
               IN IF clientCb # 0
                  THEN ClientCb(s2, clientCb, "ok", objWithTimeout.obj)
                  ELSE [s2 EXCEPT !.threw = TRUE]
  ELSE CreateIfBelowMax(s)

\* the loop of _dispense without the call of factory.validate
DispenseLoopNoValidate(s) ==
  IF Len(s.availableObjects) > 0
  THEN LET objWithTimeout == s.availableObjects[1]
           s1 == [s EXCEPT !.availableObjects = Tail(@),
                           !.inUseObjects = Append(@, objWithTimeout.obj)]
           clientCb == Shift(s1.waitingClients).first
           s2 == [s1 EXCEPT !.waitingClients = Shift(@).rest]
       IN IF clientCb # 0
          THEN ClientCb(s2, clientCb, "ok", objWithTimeout.obj)
          ELSE [s2 EXCEPT !.threw = TRUE]
  ELSE CreateIfBelowMax(s)

\* the while loop of _dispense (synchronous validate)
DispenseLoop(s) ==
  IF Len(s.availableObjects) > 0
  THEN LET objWithTimeout == s.availableObjects[1]
       IN IF objWithTimeout.obj \in s.broken
          THEN DispenseLoop(DestroyResource(s, objWithTimeout.obj))
          ELSE LET s1 == [s EXCEPT !.availableObjects = Tail(@),
                                   !.inUseObjects = Append(@, objWithTimeout.obj)]
                   clientCb == Shift(s1.waitingClients).first
                   s2 == [s1 EXCEPT !.waitingClients = Shift(@).rest]
               IN IF clientCb # 0
                  THEN ClientCb(s2, clientCb, "ok", objWithTimeout.obj)
                  ELSE [s2 EXCEPT !.threw = TRUE]
  ELSE CreateIfBelowMax(s)

\* asyncValidate(next), up to the call of factory.validateAsync
AsyncValidate(s) ==
  [s EXCEPT !.availableObjects = Tail(@),
            !.asyncTestObjects = Append(@, Head(s.availableObjects).obj)]

\* next() of doWhileAsync, with the condition, iterate and callback functions of _dispense
DoWhileAsyncNext(s) ==
  IF Len(s.availableObjects) > 0
  THEN AsyncValidate(s)
  ELSE CreateIfBelowMax(s)

\* _dispense
Dispense(s) ==
  IF Len(s.waitingClients) < 1 THEN s
  ELSE IF factory.validateAsync THEN DoWhileAsyncNext(s)
  ELSE DispenseLoop(s)

\* the callback asyncValidate hands to factory.validateAsync
ValidateCallback(s, obj, valid) ==
  LET s1 == [s EXCEPT !.asyncTestObjects = RemoveAt(@, IndexOf(@, obj))]
  IN IF ~valid THEN DoWhileAsyncNext(DestroyResource(s1, obj))
     ELSE IF Len(s1.waitingClients) < 1 THEN AddResourceToAvailableObjects(s1, obj)
     ELSE ClientCb([s1 EXCEPT !.inUseObjects = Append(@, obj),
                              !.waitingClients = Shift(@).rest],
                   Shift(s1.waitingClients).first, "ok", obj)

\* acquire without the check of _draining
AcquireIgnoresDraining(s) ==
  Dispense([s EXCEPT !.acquired = @ + 1,
                     !.waitingClients = Append(@, s.acquired + 1)])

\* acquire(callback)
AcquireOp(s) ==
  IF s.draining THEN [s EXCEPT !.rejected = @ + 1]
  ELSE Dispense([s EXCEPT !.acquired = @ + 1,
                          !.waitingClients = Append(@, s.acquired + 1)])

\* the value acquire returns, s being the state its _dispense leaves
AcquireReturns(s) == s.count < factory.max

\* release without the check that obj is in _inUseObjects
ReleaseOpUnchecked(s, obj) ==
  IF obj \in AvailableHandles(s.availableObjects)
  THEN [s EXCEPT !.errorLog = @ + 1]
  ELSE AddResourceToAvailableObjects(
         [s EXCEPT !.inUseObjects = RemoveAt(@, IndexOf(@, obj))], obj)

\* release taking the released handle off _count
ReleaseOpDropsCount(s, obj) ==
  IF obj \in AvailableHandles(s.availableObjects)
  THEN [s EXCEPT !.errorLog = @ + 1]
  ELSE IF IndexOf(s.inUseObjects, obj) = 0
  THEN [s EXCEPT !.errorLog = @ + 1]
  ELSE AddResourceToAvailableObjects(
         [s EXCEPT !.inUseObjects = RemoveAt(@, IndexOf(@, obj)),
                   !.count = @ - 1], obj)

\* release(obj)
ReleaseOp(s, obj) ==
  IF obj \in AvailableHandles(s.availableObjects)
  THEN [s EXCEPT !.errorLog = @ + 1]
  ELSE IF IndexOf(s.inUseObjects, obj) = 0
  THEN [s EXCEPT !.errorLog = @ + 1]
  ELSE AddResourceToAvailableObjects(
         [s EXCEPT !.inUseObjects = RemoveAt(@, IndexOf(@, obj))], obj)

\* the toRemove loop of _removeIdle without the limit of maxRemovable
RECURSIVE ToRemoveAllExpired(_, _)
ToRemoveAllExpired(avail, maxRemovable) ==
  IF avail = <<>> THEN <<>>
  ELSE IF Head(avail).expired
       THEN <<Head(avail).obj>> \o ToRemoveAllExpired(Tail(avail), maxRemovable - 1)
       ELSE ToRemoveAllExpired(Tail(avail), maxRemovable)

\* the toRemove loop of _removeIdle without the comparison of now and timeout
RECURSIVE ToRemoveIgnoresExpiry(_, _)
ToRemoveIgnoresExpiry(avail, maxRemovable) ==
  IF avail = <<>> \/ maxRemovable <= 0 THEN <<>>
  ELSE <<Head(avail).obj>> \o ToRemoveIgnoresExpiry(Tail(avail), maxRemovable - 1)

\* the toRemove loop of _removeIdle: the first maxRemovable expired entries
RECURSIVE ToRemove(_, _)
ToRemove(avail, maxRemovable) ==
  IF avail = <<>> \/ maxRemovable <= 0 THEN <<>>
  ELSE IF Head(avail).expired
       THEN <<Head(avail).obj>> \o ToRemove(Tail(avail), maxRemovable - 1)
       ELSE ToRemove(Tail(avail), maxRemovable)

\* toRemove.forEach(this.destroy, this) and the loop of destroyAllNow
RECURSIVE DestroyEach(_, _)
DestroyEach(s, objs) ==
  IF objs = <<>> THEN s
  ELSE DestroyEach(DestroyResource(s, Head(objs)), Tail(objs))

\* _removeIdle without the _scheduleRemoveIdle at its end
RemoveIdleOpNoRearm(s) ==
  LET s0 == [s EXCEPT !.removeIdleTimer = FALSE, !.timers = @ - 1]
      maxRemovable == s0.count - factory.min
  IN IF ~factory.refreshIdle THEN s0
     ELSE LET s1 == [s0 EXCEPT !.removeIdleScheduled = FALSE]
          IN DestroyEach(s1, ToRemove(s1.availableObjects, maxRemovable))

\* _removeIdle without the early return on refreshIdle
RemoveIdleOpAlwaysRefreshes(s) ==
  LET s0 == [s EXCEPT !.removeIdleTimer = FALSE, !.timers = @ - 1]
      maxRemovable == s0.count - factory.min
      s1 == [s0 EXCEPT !.removeIdleScheduled = FALSE]
      s2 == DestroyEach(s1, ToRemove(s1.availableObjects, maxRemovable))
  IN IF Len(s2.availableObjects) > 0 THEN ScheduleRemoveIdle(s2) ELSE s2

\* _removeIdle, run by the timer of _scheduleRemoveIdle
RemoveIdleOp(s) ==
  LET s0 == [s EXCEPT !.removeIdleTimer = FALSE, !.timers = @ - 1]
      maxRemovable == s0.count - factory.min
  IN IF ~factory.refreshIdle THEN s0
     ELSE LET s1 == [s0 EXCEPT !.removeIdleScheduled = FALSE]
              s2 == DestroyEach(s1, ToRemove(s1.availableObjects, maxRemovable))
          IN IF Len(s2.availableObjects) > 0 THEN ScheduleRemoveIdle(s2) ELSE s2

\* check() of drain without the wait for the handles in use
DrainCheckSkipsInUse(s) ==
  /\ ~(Len(s.waitingClients) > 0)
  /\ ~(Len(s.asyncTestObjects) > 0)

\* check() of drain: the three conditions under which it signals
DrainCheckPasses(s) ==
  /\ ~(Len(s.waitingClients) > 0)
  /\ ~(Len(s.asyncTestObjects) > 0)
  /\ ~(Len(s.availableObjects) # s.count)

\* check() of drain
DrainCheck(s) ==
  [s EXCEPT !.drainState = IF DrainCheckPasses(s) THEN "immediate" ELSE "polling"]

\* drain(callback)
DrainOp(s) == DrainCheck([s EXCEPT !.draining = TRUE])

\* the while loop of destroyAllNow: each destroy calls back, the callback counts
\* done and schedules callback when done equals todo
RECURSIVE DestroyAllLoop(_, _, _, _, _)
DestroyAllLoop(s, willDie, done, todo, callback) ==
  IF willDie = <<>> THEN s
  ELSE LET s1 == DestroyResource(s, Head(willDie).obj)
           s2 == IF done + 1 = todo /\ callback
                 THEN [s1 EXCEPT !.immediates = @ + 1]
                 ELSE s1
       IN DestroyAllLoop(s2, Tail(willDie), done + 1, todo, callback)

\* destroyAllNow(callback); callback is FALSE when none is given
DestroyAllNowOp(s, callback) ==
  LET willDie == s.availableObjects
      todo == Len(willDie)
      s1 == [s EXCEPT !.availableObjects = <<>>,
                      !.removeIdleScheduled = FALSE,
                      !.removeIdleTimer = FALSE,
                      !.timers = IF s.removeIdleTimer THEN @ - 1 ELSE @]
  IN IF todo = 0 /\ callback
     THEN [s1 EXCEPT !.immediates = @ + 1]
     ELSE DestroyAllLoop(s1, willDie, 0, todo, callback)

\* ------------------------------------------------------------------ actions
\* The configurations a pool is constructed with.
Configs ==
  [min : 0..1, max : 1..MaxMax, validateAsync : BOOLEAN,
   refreshIdle : {TRUE}, returnToHead : {FALSE}, syncCreate : {FALSE}]

\* constructor: the fields of a new pool
InitFields ==
  /\ count = 0
  /\ draining = FALSE
  /\ waitingClients = <<>>
  /\ inUseObjects = <<>>
  /\ availableObjects = <<>>
  /\ asyncTestObjects = <<>>
  /\ removeIdleScheduled = FALSE
  /\ removeIdleTimer = FALSE
  /\ pendingCreates = 0
  /\ pendingTicks = 0
  /\ drainState = "idle"
  /\ created = 0
  /\ destroyCalls = [h \in Handles |-> 0]
  /\ broken = {}
  /\ createFails = FALSE
  /\ acquired = 0
  /\ rejected = 0
  /\ served = <<>>
  /\ holding = {}
  /\ threw = FALSE
  /\ errorLog = 0
  /\ immediates = 0
  /\ timers = 0
  /\ constructed = "ok"

\* a constructor that ends with _ensureMinimum(): min creations in flight
InitPrewarmed ==
  /\ factory \in {f \in Configs : f.min <= f.max}
  /\ count = factory.min
  /\ pendingCreates = factory.min
  /\ draining = FALSE
  /\ waitingClients = <<>>
  /\ inUseObjects = <<>>
  /\ availableObjects = <<>>
  /\ asyncTestObjects = <<>>
  /\ removeIdleScheduled = FALSE
  /\ removeIdleTimer = FALSE
  /\ pendingTicks = 0
  /\ drainState = "idle"
  /\ created = 0
  /\ destroyCalls = [h \in Handles |-> 0]
  /\ broken = {}
  /\ createFails = FALSE
  /\ acquired = 0
  /\ rejected = 0
  /\ served = <<>>
  /\ holding = {}
  /\ threw = FALSE
  /\ errorLog = 0
  /\ immediates = 0
  /\ timers = 0
  /\ constructed = "ok"

\* constructor
Init ==
  /\ factory \in {f \in Configs : f.min <= f.max}
  /\ InitFields

Env == UNCHANGED <<factory, createFails, constructed>>

\* a caller calls acquire
Acquire ==
  /\ acquired + rejected < MaxAcquires
  /\ Apply(AcquireOp(State))
  /\ Env

\* caller p[1] gives back the handle p[2] it holds
ReleaseOf(p) ==
  /\ Apply(ReleaseOp([State EXCEPT !.holding = @ \ {p}], p[2]))
  /\ Env

\* a caller gives back a handle it holds
Release == \E p \in holding : ReleaseOf(p)

\* caller p[1] destroys the handle p[2] it holds
DestroyOf(p) ==
  /\ Apply(DestroyResource([State EXCEPT !.holding = @ \ {p}], p[2]))
  /\ Env

\* a caller destroys a handle it holds
Destroy == \E p \in holding : DestroyOf(p)

\* factory.create completes with a handle
CreateOk ==
  /\ pendingCreates > 0
  /\ pendingTicks = 0
  /\ created < MaxCreated
  /\ Apply(CreateCallback([State EXCEPT !.pendingCreates = @ - 1], FALSE))
  /\ Env

\* factory.create completes with an error
CreateFail ==
  /\ pendingCreates > 0
  /\ pendingTicks = 0
  /\ Apply(CreateCallback([State EXCEPT !.pendingCreates = @ - 1], TRUE))
  /\ Env

\* factory.validateAsync completes
ValidateDone ==
  /\ pendingTicks = 0
  /\ \E i \in 1..Len(asyncTestObjects) :
       Apply(ValidateCallback(State, asyncTestObjects[i], asyncTestObjects[i] \notin broken))
  /\ Env

\* the process.nextTick callback of a failed create runs
NextTick ==
  /\ pendingTicks > 0
  /\ Apply(Dispense([State EXCEPT !.pendingTicks = @ - 1]))
  /\ Env

\* the reap timer fires
RemoveIdle ==
  /\ removeIdleTimer
  /\ pendingTicks = 0
  /\ Apply(RemoveIdleOp(State))
  /\ Env

\* time passes: the k entries that have been idle longest reach their timeout
\* (entries are added at the tail, or at the head with returnToHead, so the
\* array is in the order of the timeouts)
Tick ==
  /\ \E k \in 1..Len(availableObjects) :
       LET n == Len(availableObjects)
           Oldest(i) == IF factory.returnToHead THEN i > n - k ELSE i <= k
           aged == [i \in 1..n |->
                      [availableObjects[i] EXCEPT !.expired = @ \/ Oldest(i)]]
       IN /\ aged # availableObjects
          /\ availableObjects' = aged
  /\ UNCHANGED <<factory, count, draining, waitingClients, inUseObjects,
                 asyncTestObjects, removeIdleScheduled, removeIdleTimer, pendingCreates,
                 pendingTicks, drainState, created, destroyCalls, broken, createFails,
                 acquired, rejected, served, holding, threw, errorLog, immediates,
                 timers,
                 constructed>>

\* an idle handle stops being valid: factory.validate / validateAsync will
\* answer false for it (validity is read only for handles the pool holds idle)
Break ==
  /\ \E h \in AvailableHandles(availableObjects) \cup Range(asyncTestObjects) :
       /\ h \notin broken
       /\ broken' = broken \cup {h}
  /\ UNCHANGED <<factory, count, draining, waitingClients, inUseObjects, availableObjects,
                 asyncTestObjects, removeIdleScheduled, removeIdleTimer, pendingCreates,
                 pendingTicks, drainState, created, destroyCalls, createFails,
                 acquired, rejected, served, holding, threw, errorLog, immediates,
                 timers,
                 constructed>>

\* a caller calls drain
Drain ==
  /\ drainState = "idle"
  /\ Apply(DrainOp(State))
  /\ Env

\* the setTimeout(check, 100) of drain fires
DrainPoll ==
  /\ drainState = "polling"
  /\ pendingTicks = 0
  /\ Apply(DrainCheck(State))
  /\ Env

\* the setImmediate(callback) of drain runs
DrainCallback ==
  /\ drainState = "immediate"
  /\ pendingTicks = 0
  /\ Apply([State EXCEPT !.drainState = "done"])
  /\ Env

\* a caller calls destroyAllNow()
DestroyAllNow ==
  /\ Apply(DestroyAllNowOp(State, FALSE))
  /\ Env

Next ==
  \/ Acquire
  \/ Release
  \/ Destroy
  \/ CreateOk
  \/ CreateFail
  \/ ValidateDone
  \/ NextTick
  \/ RemoveIdle
  \/ Tick
  \/ Break
  \/ Drain
  \/ DrainPoll
  \/ DrainCallback
  \/ DestroyAllNow

Spec == Init /\ [][Next]_vars

\* ------------------------------------------- callers that misuse release
MaxErrorLogs == 2    \* error-level messages logged

\* The configurations of the pools whose callers misuse release.
ConfigsMisuse ==
  [min : 0..1, max : 1..MaxMax, validateAsync : BOOLEAN,
   refreshIdle : {TRUE}, returnToHead : {FALSE}, syncCreate : {FALSE}]

InitMisuse ==
  /\ factory \in ConfigsMisuse
  /\ InitFields

Held == {p[2] : p \in holding}

\* a caller calls release with an object it does not hold: a handle that is
\* idle, under validation or destroyed, or an object the pool never produced (0)
ReleaseNotHeld ==
  /\ errorLog < MaxErrorLogs
  /\ \E obj \in (0..created) \ Held : Apply(ReleaseOp(State, obj))
  /\ Env

\* The callers, the factory and the validator; the reap timer does not fire and
\* drain is not called while these pools are observed.
NextMisuse ==
  \/ Acquire
  \/ Release
  \/ Destroy
  \/ CreateOk
  \/ CreateFail
  \/ ValidateDone
  \/ NextTick
  \/ DestroyAllNow
  \/ ReleaseNotHeld

SpecMisuse == InitMisuse /\ [][NextMisuse]_vars

\* ------------------------------------------------------------------- claims
WaitersOf(seq) == [i \in 1..Len(seq) |-> seq[i].w]

\* C1: a handle is held by at most one caller at a time: no two callers that
\* have received a handle and not yet released or destroyed it hold the same one.
C1_ExclusiveHold == \A p, q \in holding : p[2] = q[2] => p = q

\* C1 witness: handle 1 went to waiter 1, was given back, and is now held by a later waiter.
C1_Witness ==
  /\ created = 1
  /\ served # <<>> /\ served[1] = [w |-> 1, kind |-> "ok"]
  /\ \E w \in 2..MaxAcquires : holding = {<<w, 1>>}

\* C2: in every reachable state the pool's size is at most max.
C2_SizeAtMostMax == count <= factory.max

\* C2 witness: the pool is full and a waiter is queued behind it.
C2_Witness == count = factory.max /\ Len(waitingClients) > 0 /\ pendingCreates = 0

\* C3: the available, in-use and under-validation sets are pairwise disjoint and
\* none of them holds a handle twice.
C3_Disjoint ==
  LET avail == [i \in 1..Len(availableObjects) |-> availableObjects[i].obj]
      all == avail \o inUseObjects \o asyncTestObjects
  IN \A i, j \in 1..Len(all) : all[i] = all[j] => i = j

\* C4: size = |available| + |in-use| + |under-validation| + creations in flight.
C4_CountMatchesSets ==
  count = Len(availableObjects) + Len(inUseObjects) + Len(asyncTestObjects) + pendingCreates

\* C5: every enqueued acquire is eventually fulfilled when the factory completes
\* every create and every holder gives its handle back.  Stated on finite runs:
\* no state has a waiter queued while nothing that could serve it is left (no
\* create in flight, no handle held, idle or under validation, no deferred
\* dispense), because from such a state the waiter stays queued for ever.
C5_NoStrandedWaiter ==
  ~ /\ Len(waitingClients) > 0
    /\ pendingCreates = 0
    /\ pendingTicks = 0
    /\ holding = {}
    /\ availableObjects = <<>>
    /\ asyncTestObjects = <<>>

\* C6: waiters are served in FIFO order: the callbacks have run in the order
\* the acquires were enqueued, and the acquires not served yet are queued in that
\* order behind them, so every delivery went to the head of the queue.
C6_Fifo == WaitersOf(served) \o waitingClients = [i \in 1..acquired |-> i]

\* C6 witness: three acquires were served with the one handle of a pool of max 1,
\* so the second and third were queued while the first held it.
C6_Witness ==
  /\ created = 1
  /\ Len(served) = 3
  /\ \A i \in 1..3 : served[i].kind = "ok"

\* C7: each acquire callback is invoked at most once, and an enqueued acquire
\* is either still queued or has had its callback invoked, never both.
C7_OnceAndNotBoth ==
  /\ \A i, j \in 1..Len(served) : served[i].w = served[j].w => i = j
  /\ \A w \in 1..acquired :
       (w \in Range(waitingClients)) # (w \in Range(WaitersOf(served)))

\* C7 witness: with async validation, a second waiter received the released
\* handle after its validation while a third is still queued.
C7_Witness ==
  /\ factory.validateAsync
  /\ created = 1
  /\ Len(served) = 2 /\ served[2].kind = "ok"
  /\ Len(waitingClients) = 1

PoolFields ==
  <<count, waitingClients, inUseObjects, availableObjects, asyncTestObjects,
    removeIdleScheduled, removeIdleTimer, pendingCreates, pendingTicks, served, holding>>

\* C8: once drain has been called the pool stays draining, and every later
\* acquire throws: it enqueues no waiter, starts no creation and changes nothing
\* in the pool.
C8_DrainingRejects ==
  [][draining =>
       /\ draining'
       /\ drainState' # "idle"
       /\ acquired' = acquired
       /\ Len(waitingClients') <= Len(waitingClients)
       /\ (rejected' # rejected => UNCHANGED PoolFields)]_vars

\* C8 witness: an acquire was rejected after drain had signalled completion.
C8_Witness == rejected > 0 /\ drainState = "done"

Quiescent ==
  /\ waitingClients = <<>>
  /\ asyncTestObjects = <<>>
  /\ Len(availableObjects) = count

\* C9: drain signals completion only from a state in which the waiter queue is
\* empty, nothing is under validation and |available| = size; when drain is
\* called in any other state it does not signal and polls again.
C9_DrainSignalsWhenQuiescent ==
  [][/\ (drainState # "immediate" /\ drainState' = "immediate") => Quiescent'
     /\ (drainState = "idle" /\ drainState' # "idle") =>
          IF Quiescent' THEN drainState' = "immediate" ELSE drainState' = "polling"]_vars

\* C9 witness: drain has signalled on a pool whose handles are all idle, after
\* every acquire was served.
C9_Witness ==
  /\ drainState = "immediate"
  /\ count > 0
  /\ Len(served) = MaxAcquires

\* C10: when drain signals completion every enqueued acquire has been
\* fulfilled, waiting = 0 and using = 0, and no caller still holds a handle.
C10_DrainCompleteNothingInUse ==
  drainState = "immediate" =>
    /\ Len(waitingClients) = 0
    /\ Range(WaitersOf(served)) = 1..acquired
    /\ Len(inUseObjects) = 0
    /\ holding = {}

\* C11: after drain is called, completion is eventually signalled (and once),
\* provided the factory completes every create and every holder gives its handle
\* back by release or by destroy.  Stated on finite runs: no state has drain
\* polling with a waiter queued while no create, deferred dispense or validation
\* is in flight and no handle is held or idle, because from such a state the
\* waiter stays queued and every later check of drain fails.
C11_DrainNeverStuck ==
  ~ /\ drainState = "polling"
    /\ Len(waitingClients) > 0
    /\ pendingCreates = 0
    /\ pendingTicks = 0
    /\ holding = {}
    /\ availableObjects = <<>>
    /\ asyncTestObjects = <<>>

\* ------------------------------------------------------- new Pool(factory)
MaxTwice == 4        \* the numbers given for min and max are -1, -0.5, ..., MaxTwice / 2

\* The values given for factory.min and factory.max: nothing, a string, NaN,
\* Infinity, or the number twice / 2.
OptionValues ==
  {[kind |-> k, twice |-> 0] : k \in {"undefined", "string", "nan", "infinity"}}
    \cup {[kind |-> "number", twice |-> n] : n \in -2..MaxTwice}

\* The objects passed to the constructor: which functions are given, min and max.
Options ==
  [create : BOOLEAN, destroy : BOOLEAN, validate : BOOLEAN, validateAsync : BOOLEAN,
   min : OptionValues, max : OptionValues]

\* typeof v !== "number"
NotANumber(v) == v.kind \in {"undefined", "string"}

\* v < k and v <= k for an integer k; comparisons with NaN are false
LessThan(v, k) == v.kind = "number" /\ v.twice < 2 * k
AtMost(v, k) == v.kind = "number" /\ v.twice <= 2 * k

\* v !== Math.round(v): Math.round(Infinity) is Infinity, NaN !== NaN
NotRounded(v) ==
  CASE v.kind = "number" -> v.twice % 2 # 0
    [] v.kind = "infinity" -> FALSE
    [] OTHER -> TRUE

\* a > b for two values that passed the checks above (integers or Infinity)
GreaterThan(a, b) ==
  CASE a.kind = "number" /\ b.kind = "number" -> a.twice > b.twice
    [] a.kind = "infinity" /\ b.kind = "number" -> TRUE
    [] OTHER -> FALSE

\* parseInt(v, 10) of an integer or of Infinity (the string "Infinity" has no digits)
ParseInt(v) == IF v.kind = "number" THEN v.twice \div 2 ELSE "NaN"

\* the checks of the constructor: the message of the Error thrown, or "ok"
ConstructorCheck(f) ==
  IF ~f.create THEN "create function is required"
  ELSE IF ~f.destroy THEN "destroy function is required"
  ELSE IF NotANumber(f.min) \/ LessThan(f.min, 0) \/ NotRounded(f.min)
       THEN "min must be an integer >= 0"
  ELSE IF NotANumber(f.max) \/ AtMost(f.max, 0) \/ NotRounded(f.max)
       THEN "max must be an integer > 0"
  ELSE IF GreaterThan(f.min, f.max) THEN "max is smaller than min"
  ELSE IF ~f.validate /\ ~f.validateAsync
       THEN "Neither validate or validateAsync was specified"
  ELSE IF f.validate /\ f.validateAsync
       THEN "Only one of validate or validateAsync may be specified"
  ELSE "ok"

\* the defaults of the constructor and this._factory = factory
WithDefaults(f) ==
  [min |-> ParseInt(f.min), max |-> ParseInt(f.max), validateAsync |-> f.validateAsync,
   refreshIdle |-> TRUE, returnToHead |-> FALSE, syncCreate |-> FALSE]

\* the fields the constructor sets; before it has run the object has none
ConstructorFields ==
  <<count, draining, waitingClients, inUseObjects, availableObjects, asyncTestObjects,
    removeIdleTimer, removeIdleScheduled>>

\* before new Pool(factory): the options are chosen, the object has no fields
InitConstruct ==
  /\ factory \in Options
  /\ constructed = "no"
  /\ count = "undefined"
  /\ draining = "undefined"
  /\ waitingClients = "undefined"
  /\ inUseObjects = "undefined"
  /\ availableObjects = "undefined"
  /\ asyncTestObjects = "undefined"
  /\ removeIdleScheduled = "undefined"
  /\ removeIdleTimer = "undefined"
  /\ pendingCreates = 0
  /\ pendingTicks = 0
  /\ drainState = "idle"
  /\ created = 0
  /\ destroyCalls = [h \in Handles |-> 0]
  /\ broken = {}
  /\ createFails = FALSE
  /\ acquired = 0
  /\ rejected = 0
  /\ served = <<>>
  /\ holding = {}
  /\ threw = FALSE
  /\ errorLog = 0
  /\ immediates = 0
  /\ timers = 0

\* new Pool(factory)
Construct ==
  /\ constructed = "no"
  /\ constructed' = ConstructorCheck(factory)
  /\ IF ConstructorCheck(factory) = "ok"
     THEN /\ factory' = WithDefaults(factory)
          /\ count' = 0
          /\ draining' = FALSE
          /\ waitingClients' = <<>>
          /\ inUseObjects' = <<>>
          /\ availableObjects' = <<>>
          /\ asyncTestObjects' = <<>>
          /\ removeIdleTimer' = FALSE
          /\ removeIdleScheduled' = FALSE
     ELSE UNCHANGED <<factory, ConstructorFields>>
  /\ UNCHANGED <<pendingCreates, pendingTicks, drainState, created, destroyCalls, broken,
                 createFails, acquired, rejected, served, holding, threw, errorLog,
                 immediates, timers>>

NextConstruct == Construct

SpecConstruct == InitConstruct /\ [][NextConstruct]_vars

\* ------------------------------------------- acquires with a deadline
\* The configurations of the pools with acquireTimeoutMillis set.
ConfigsTimeout ==
  [min : {0}, max : 1..MaxMax, validateAsync : BOOLEAN,
   refreshIdle : {TRUE}, returnToHead : {FALSE}, syncCreate : {FALSE}]

InitTimeout ==
  /\ factory \in ConfigsTimeout
  /\ InitFields

\* the deadline of a waiter is reached while it is enqueued: it is removed from
\* the queue and fulfilled with the timeout error.  Every acquire has the same
\* acquireTimeoutMillis, so the deadlines are reached in the order of the queue.
AcquireTimeoutOp(s) ==
  ClientCb([s EXCEPT !.waitingClients = Tail(@)], Head(s.waitingClients), "timeout", 0)

AcquireTimeout ==
  /\ Len(waitingClients) > 0
  /\ pendingTicks = 0
  /\ Apply(AcquireTimeoutOp(State))
  /\ Env

NextTimeout ==
  \/ Acquire
  \/ Release
  \/ Destroy
  \/ CreateOk
  \/ CreateFail
  \/ ValidateDone
  \/ NextTick
  \/ AcquireTimeout

SpecTimeout == InitTimeout /\ [][NextTimeout]_vars

\* ------------------------- factories that call back synchronously or later
\* The configurations of the pools whose factory may call back inside create.
ConfigsSync ==
  [min : 0..1, max : 1..MaxMax, validateAsync : {FALSE},
   refreshIdle : {TRUE}, returnToHead : {FALSE}, syncCreate : BOOLEAN]

InitSync ==
  /\ factory \in {f \in ConfigsSync : f.min <= f.max}
  /\ InitFields

\* the synchronous factory starts or stops failing
FactoryFlips ==
  /\ factory.syncCreate
  /\ createFails' = ~createFails
  /\ UNCHANGED <<factory, count, draining, waitingClients, inUseObjects, availableObjects,
                 asyncTestObjects, removeIdleScheduled, removeIdleTimer, pendingCreates,
                 pendingTicks, drainState, created, destroyCalls, broken,
                 acquired, rejected, served, holding, threw, errorLog, immediates,
                 timers,
                 constructed>>

NextSync ==
  \/ Acquire
  \/ Release
  \/ Destroy
  \/ CreateOk
  \/ CreateFail
  \/ NextTick
  \/ RemoveIdle
  \/ Tick
  \/ Break
  \/ Drain
  \/ DrainPoll
  \/ DrainCallback
  \/ DestroyAllNow
  \/ FactoryFlips

SpecSync == InitSync /\ [][NextSync]_vars

\* ------------------------------ idle handles: reaping, order, destroyAllNow
MaxImmediates == 1   \* callbacks of destroyAllNow scheduled and not run yet

\* The configurations of the pools observed for their idle handles.
ConfigsIdle ==
  [min : 0..1, max : 1..MaxMax, validateAsync : {FALSE},
   refreshIdle : BOOLEAN, returnToHead : BOOLEAN, syncCreate : {FALSE}]

InitIdle ==
  /\ factory \in {f \in ConfigsIdle : f.min <= f.max}
  /\ InitFields

\* a caller calls destroyAllNow(callback)
DestroyAllNowCb ==
  /\ immediates < MaxImmediates
  /\ Apply(DestroyAllNowOp(State, TRUE))
  /\ Env

\* the setImmediate(callback) of destroyAllNow runs
DestroyAllNowDone ==
  /\ immediates > 0
  /\ pendingTicks = 0
  /\ Apply([State EXCEPT !.immediates = @ - 1])
  /\ Env

NextIdle ==
  \/ Acquire
  \/ Release
  \/ Destroy
  \/ CreateOk
  \/ CreateFail
  \/ NextTick
  \/ RemoveIdle
  \/ Tick
  \/ Break
  \/ DestroyAllNowCb
  \/ DestroyAllNowDone

SpecIdle == InitIdle /\ [][NextIdle]_vars

\* ------------------------------------------------ the reaper, given time
\* The pools whose reaper is followed to the end: the timer callback of
\* _scheduleRemoveIdle and the process.nextTick callbacks run once they are due.
MaxReapAcquires == 2   \* acquire() calls made on these pools

ConfigsReap ==
  [min : 0..1, max : 1..MaxMax, validateAsync : {FALSE},
   refreshIdle : {TRUE}, returnToHead : {FALSE}, syncCreate : {FALSE}]

InitReap ==
  /\ factory \in {f \in ConfigsReap : f.min <= f.max}
  /\ InitFields

\* a caller calls acquire(callback)
AcquireReap ==
  /\ acquired < MaxReapAcquires
  /\ Acquire

NextReap ==
  \/ AcquireReap
  \/ Release
  \/ Destroy
  \/ CreateOk
  \/ RemoveIdle
  \/ Tick
  \/ DestroyAllNow

SpecReap == InitReap /\ [][NextReap]_vars /\ WF_vars(RemoveIdle)

\* ------------------------- a floor above one, a factory that calls back at once
\* The pools whose minimum may be any number up to max and whose factory calls
\* back inside create.
ConfigsFloor ==
  [min : 1..MaxMax, max : 1..MaxMax, validateAsync : {FALSE},
   refreshIdle : {TRUE}, returnToHead : {FALSE}, syncCreate : {TRUE}]

InitFloor ==
  /\ factory \in {f \in ConfigsFloor : f.min <= f.max}
  /\ InitFields

NextFloor ==
  \/ Acquire
  \/ Release
  \/ Destroy
  \/ NextTick
  \/ Break

SpecFloor == InitFloor /\ [][NextFloor]_vars

\* ------------------------------------------- callers that misuse destroy
MaxDestroys == 2   \* destroy calls a caller makes on one handle

ConfigsDestroyTwice ==
  [min : {0}, max : 1..MaxMax, validateAsync : {FALSE},
   refreshIdle : {TRUE}, returnToHead : {FALSE}, syncCreate : {FALSE}]

InitDestroyTwice ==
  /\ factory \in ConfigsDestroyTwice
  /\ InitFields

\* a caller calls destroy(obj) with a handle it got from the pool and does not
\* hold any more: one it has released, or one it has destroyed already
DestroyNotHeld ==
  /\ \E obj \in (1..created) \ Held :
       /\ destroyCalls[obj] < MaxDestroys
       /\ Apply(DestroyResource(State, obj))
  /\ Env

NextDestroyTwice ==
  \/ Acquire
  \/ Release
  \/ Destroy
  \/ CreateOk
  \/ DestroyNotHeld

SpecDestroyTwice == InitDestroyTwice /\ [][NextDestroyTwice]_vars

\* C12: release(h) is a no-op when h is already in the available set (double
\* release) or is not in the in-use set (foreign, unknown or destroyed handle):
\* size, the sets, the queue and what the callers hold are unchanged, nothing is
\* delivered or thrown, and one error-level message is logged.
C12_BadReleaseIsNoOp ==
  \A obj \in 0..created :
    (obj \in AvailableHandles(availableObjects) \/ obj \notin Range(inUseObjects))
      => ReleaseOp(State, obj) = [State EXCEPT !.errorLog = @ + 1]

\* C12 witness: releases of objects the callers did not hold were logged on a
\* pool whose one handle is idle, and left it idle, once, with nothing in use.
C12_Witness ==
  /\ errorLog = MaxErrorLogs
  /\ Len(availableObjects) = 1
  /\ count = 1
  /\ inUseObjects = <<>>
  /\ holding = {}

\* C13: release(h) of a held handle removes h from the in-use set; if a waiter
\* is queued h is delivered to the head waiter within the same step and no new
\* resource is created, otherwise h joins the available set.  Stated for
\* synchronous validation of a handle that validates, the case of the hand-over.
C13_ReleaseHandsOver ==
  [][\A p \in holding :
       (ReleaseOf(p) /\ ~factory.validateAsync /\ p[2] \notin broken) =>
          IF Len(waitingClients) > 0
          THEN /\ <<Head(waitingClients), p[2]>> \in holding'
               /\ waitingClients' = Tail(waitingClients)
               /\ created' = created
               /\ pendingCreates' = pendingCreates
               /\ count' = count
          ELSE /\ p[2] \in AvailableHandles(availableObjects')
               /\ p[2] \notin Range(inUseObjects')
               /\ holding' = holding \ {p}]_vars

\* C14: when a create fails, size is decremented by one and stays at or above 0,
\* the error is delivered to the head waiter if one is queued and to no other
\* waiter, and no handle is added to the available or in-use sets.
C14_CreateFailure ==
  [][CreateFail =>
       /\ count' = count - 1
       /\ count' >= 0
       /\ IF Len(waitingClients) > 0
          THEN /\ served' = Append(served, [w |-> Head(waitingClients), kind |-> "err"])
               /\ waitingClients' = Tail(waitingClients)
          ELSE /\ served' = served
               /\ waitingClients' = waitingClients
       /\ UNCHANGED <<availableObjects, inUseObjects, asyncTestObjects, holding, created>>]_vars

\* C14 witness: in a pool of max 1 the create started for the first of two
\* waiters failed: the first has its error, the second is still queued, size is
\* back at 0 and the pool has no handle.
C14_Witness ==
  /\ factory.max = 1
  /\ served = <<[w |-> 1, kind |-> "err"]>>
  /\ waitingClients = <<2>>
  /\ pendingTicks = 1
  /\ count = 0
  /\ created = 0
  /\ availableObjects = <<>> /\ inUseObjects = <<>>

\* C15: after a create failure the pool tries again for the waiters that remain,
\* whether the factory calls back synchronously or later: the errors and the
\* handles go to the waiters in the order they were enqueued, and while no
\* handle has been destroyed no waiter stays queued with nothing left to serve
\* it (a create or a deferred dispense in flight, or a handle held or idle).
C15_RetryAfterFailure ==
  /\ WaitersOf(served) = [i \in 1..Len(served) |-> i]
  /\ (/\ \A h \in Handles : destroyCalls[h] = 0
      /\ Len(waitingClients) > 0
      /\ pendingTicks = 0)
       => \/ pendingCreates > 0
          \/ holding # {}
          \/ availableObjects # <<>>

\* C15 witness: with max 1 and a factory that calls back later, two creates
\* failed and the third succeeded: the first two of three queued acquires have
\* the errors, the third has the handle, and nobody waits.
C15_Witness ==
  /\ factory.max = 1
  /\ ~factory.syncCreate
  /\ served = <<[w |-> 1, kind |-> "err"], [w |-> 2, kind |-> "err"], [w |-> 3, kind |-> "ok"]>>
  /\ holding = {<<3, 1>>}
  /\ waitingClients = <<>>
  /\ count = 1 /\ created = 1

DestroyedInStep ==
  {h \in Handles : destroyCalls'[h] # destroyCalls[h]}

\* C16: with synchronous validation a handle taken from the available set is
\* delivered only if validate answered true in that pass.  A handle for which it
\* answers false is never delivered: when it leaves the available set
\* factory.destroy is called on it once, size is decremented for it, and the
\* acquire that met it at the head is served from a later available handle or
\* has a creation started.
C16_InvalidNeverDelivered ==
  [][~factory.validateAsync =>
       /\ \A p \in holding' \ holding : p[2] \notin broken
       /\ \A h \in broken :
            h \notin AvailableHandles(availableObjects') =>
              /\ destroyCalls'[h] = destroyCalls[h] + 1
              /\ h \notin {p[2] : p \in holding'}
       /\ (/\ acquired' = acquired + 1
           /\ availableObjects # <<>>
           /\ availableObjects[1].obj \in broken) =>
              /\ availableObjects[1].obj \in DestroyedInStep
              /\ count' - pendingCreates' =
                   count - pendingCreates - Cardinality(DestroyedInStep)
              /\ \/ \E p \in holding' \ holding : p[1] = acquired'
                 \/ pendingCreates' > pendingCreates]_vars

\* C16 witness: in a pool of max 1 and min 0 the first handle was given back,
\* became invalid while idle (the reap timer set by its release is still
\* pending) and was destroyed when the second acquire met it; the second waiter
\* holds a second handle, created for it.
C16_Witness ==
  /\ ~factory.validateAsync
  /\ factory.max = 1 /\ factory.min = 0
  /\ created = 2
  /\ destroyCalls[1] = 1
  /\ holding = {<<2, 2>>}
  /\ removeIdleTimer

NoDestroyYet == \A h \in Handles : destroyCalls[h] = 0

C18_MinCheckedAtCreation ==
  (acquired = 0 /\ pendingCreates = 0) => created >= factory.min

\* C19: on a pool that is not draining, whenever size is below min the pool
\* eventually brings it back to at least min.  Stated on finite runs, for pools
\* that have had a destroy: no state of a pool that is not draining has size
\* below min while no creation and no deferred dispense is in flight, because
\* from such a state the pool starts no creation unless a caller acquires.
C19_FloorRestored ==
  (/\ ~draining
   /\ ~NoDestroyYet
   /\ pendingCreates = 0
   /\ pendingTicks = 0)
    => count >= factory.min

\* C20 as stated: after every reaper sweep, size >= min.
C20_SizeAtLeastMinAfterSweep ==
  [][RemoveIdle => count' >= factory.min]_vars

\* C20 amended: a reaper sweep never takes size below min: it destroys at most
\* size - min handles, so size >= min after it when size >= min before it, and
\* it destroys nothing when size is already below min.
C20_SweepKeepsFloor ==
  [][RemoveIdle =>
       /\ Cardinality(DestroyedInStep) <= (IF count > factory.min THEN count - factory.min ELSE 0)
       /\ count >= factory.min => count' >= factory.min
       /\ count < factory.min => (count' = count /\ DestroyedInStep = {})]_vars

\* C20 witness: in a pool of min 1 and max 2 both handles were idle past their
\* timeout; the first was destroyed, the second is kept, still expired, as the
\* floor, and the timer is set again.
C20_Witness ==
  /\ factory.min = 1 /\ factory.max = 2
  /\ availableObjects = <<[obj |-> 2, expired |-> TRUE]>>
  /\ destroyCalls[1] = 1
  /\ count = 1
  /\ pendingCreates = 0
  /\ holding = {}
  /\ removeIdleTimer

C22_AcquireReturn ==
  ~draining =>
    LET s == AcquireOp(State)
    IN AcquireReturns(s) = (Len(s.availableObjects) > 0 \/ s.count < factory.max)

\* v is an integer >= k
IntegerAtLeast(v, k) == v.kind = "number" /\ v.twice % 2 = 0 /\ v.twice >= 2 * k

\* C23: construction fails with an error, and yields no pool, when create or
\* destroy is missing, when neither or both of validate and validateAsync are
\* given, when min is not an integer >= 0, when max is not an integer > 0, or when
\* min > max; every constructed pool has 0 <= min <= max, max > 0 and starts
\* with size = available = using = waiting = 0 and draining off.
C23_ConstructionChecked ==
  [][(constructed = "no" /\ constructed' # "no") =>
       LET f == factory
           bad == \/ ~f.create
                  \/ ~f.destroy
                  \/ f.validate = f.validateAsync
                  \/ ~IntegerAtLeast(f.min, 0)
                  \/ ~IntegerAtLeast(f.max, 1)
                  \/ f.min.twice > f.max.twice
       IN /\ bad => (constructed' # "ok" /\ UNCHANGED <<factory, ConstructorFields>>)
          /\ constructed' = "ok" =>
               /\ factory'.min \in Nat /\ factory'.max \in Nat
               /\ factory'.min <= factory'.max /\ factory'.max > 0
               /\ count' = 0 /\ draining' = FALSE
               /\ availableObjects' = <<>> /\ inUseObjects' = <<>>
               /\ waitingClients' = <<>>]_vars

\* C24: destroyAllNow cancels the pending reap timer, empties the available set
\* and calls the factory's destroy exactly once for each handle that was
\* available, decreasing size by that number; handles held by callers stay in
\* the in-use set and are not destroyed; if the pool is not draining,
\* replacement creations are started up to min; the callback is scheduled once.
C24_DestroyAllNow ==
  [][DestroyAllNowCb =>
       LET was == AvailableHandles(availableObjects)
           left == count - Len(availableObjects)
           started == IF ~draining /\ left < factory.min THEN factory.min - left ELSE 0
       IN /\ ~removeIdleTimer' /\ ~removeIdleScheduled'
          /\ availableObjects' = <<>>
          /\ \A h \in Handles :
               destroyCalls'[h] = destroyCalls[h] + (IF h \in was THEN 1 ELSE 0)
          /\ holding' = holding
          /\ \A p \in holding : p[2] \in Range(inUseObjects')
          /\ count' = left + started
          /\ pendingCreates' = pendingCreates + started
          /\ immediates' = immediates + 1]_vars

\* what destroy(h) of a held handle does to both sets and to the factory
DestroyRemoves(h) ==
  /\ h \notin Range(inUseObjects')
  /\ h \notin AvailableHandles(availableObjects')
  /\ destroyCalls'[h] = destroyCalls[h] + 1

\* the creations _ensureMinimum starts once size went down by one
FloorCreations ==
  IF ~draining /\ count - 1 < factory.min THEN factory.min - (count - 1) ELSE 0

\* C25 as stated: destroy(h) of a held handle removes h from the in-use and the
\* available set, decrements size by one and calls the factory's destroy on h
\* once; on a pool that is not draining it then starts min - size creations, so
\* that size >= min holds when destroy returns; on a draining pool it starts
\* no creation.
C25_DestroyRestoresFloor ==
  [][\A p \in holding : DestroyOf(p) =>
       /\ DestroyRemoves(p[2])
       /\ IF draining
          THEN count' = count - 1 /\ pendingCreates' = pendingCreates /\ created' = created
          ELSE count' = count - 1 + FloorCreations /\ count' >= factory.min]_vars

\* C25 amended: as above, but the creations that destroy starts leave
\* size >= min only while they are in flight or have succeeded; one that the
\* factory has failed synchronously has already taken size down again and left
\* a retry of the dispenser for the next tick.
C25_DestroyStartsFloorCreations ==
  [][\A p \in holding : DestroyOf(p) =>
       /\ DestroyRemoves(p[2])
       /\ IF draining
          THEN count' = count - 1 /\ pendingCreates' = pendingCreates /\ created' = created
          ELSE IF ~factory.syncCreate
          THEN /\ count' = count - 1 + FloorCreations /\ count' >= factory.min
               /\ pendingCreates' = pendingCreates + FloorCreations
          ELSE IF createFails \/ created >= MaxCreated
          THEN count' = count - 1 /\ pendingTicks' = pendingTicks + FloorCreations
          ELSE /\ count' = count - 1 + FloorCreations /\ count' >= factory.min
               /\ created' = created + FloorCreations]_vars

\* C25 witness: with min 1 and max 1 the holder destroyed the only handle while
\* a second caller waits; a replacement creation is in flight and the waiter
\* still waits (a release would have handed the handle to it).
C25_Witness ==
  /\ factory.min = 1 /\ factory.max = 1 /\ ~factory.syncCreate
  /\ ~draining
  /\ destroyCalls[1] = 1
  /\ holding = {}
  /\ waitingClients = <<2>>
  /\ Len(served) = 1
  /\ count = 1 /\ pendingCreates = 1
  /\ inUseObjects = <<>> /\ availableObjects = <<>>

\* the calls of the factory's destroy so far, over all handles
DestroyCallsUpTo[n \in 0..MaxCreated] ==
  IF n = 0 THEN 0 ELSE DestroyCallsUpTo[n - 1] + destroyCalls[n]

\* the creations started and not failed: those in flight and those completed
CreationsAlive == pendingCreates + created

\* C26: size changes only when a creation starts (+1), when a creation fails
\* (-1) and when a handle is destroyed (-1): size is the number of creations
\* started and not failed minus the number of handles destroyed. A release, and
\* the delivery of an already existing handle to a waiter, directly or through
\* validation, therefore leave size as it is; with max 2, after two acquires,
\* two releases and a third acquire, size is 2.
C26_SizeAccounting ==
  /\ count = CreationsAlive - DestroyCallsUpTo[MaxCreated]
  /\ LET ops == {s \in {ReleaseOp([State EXCEPT !.holding = @ \ {p}], p[2]) : p \in holding}
                      \cup (IF acquired + rejected < MaxAcquires THEN {AcquireOp(State)} ELSE {})
                      \cup {ValidateCallback(State, h, TRUE) : h \in Range(asyncTestObjects)} :
                    /\ s.pendingCreates = pendingCreates
                    /\ s.created = created
                    /\ s.destroyCalls = destroyCalls}
     IN \A s \in ops : s.count = count
  /\ (factory.max = 2 /\ acquired = 3 /\ created = 2 /\ Len(served) = 3
        /\ NoDestroyYet /\ pendingCreates = 0) => count = 2

\* C26 witness: with max 2, two handles were created for two callers, both were
\* released and a third acquire took one of them back; nothing was destroyed
\* and size is 2.
C26_Witness ==
  /\ factory.max = 2
  /\ acquired = 3 /\ created = 2 /\ Len(served) = 3
  /\ Len(availableObjects) = 1
  /\ {p[1] : p \in holding} = {3}
  /\ NoDestroyYet /\ pendingCreates = 0
  /\ count = 2

\* the position in the available list of the first entry that passes
\* validation, 0 when none does
FirstValid ==
  LET valid == {i \in 1..Len(availableObjects) : availableObjects[i].obj \notin broken}
  IN IF valid = {} THEN 0 ELSE CHOOSE i \in valid : \A j \in valid : i <= j

\* C27: the dispenser takes the handle at the head of the available list (the
\* first one that passes validation); a released handle is inserted at the head
\* when returnToHead is true and at the tail otherwise.
C27_HeadFirst ==
  /\ \A p \in holding :
       waitingClients = <<>> =>
         LET s == ReleaseOp([State EXCEPT !.holding = @ \ {p}], p[2])
             e == [obj |-> p[2], expired |-> FALSE]
         IN s.availableObjects =
              IF factory.returnToHead THEN <<e>> \o availableObjects
              ELSE Append(availableObjects, e)
  /\ (~draining /\ acquired + rejected < MaxAcquires /\ waitingClients = <<>>
        /\ FirstValid > 0) =>
       LET s == AcquireOp(State)
       IN /\ s.holding = holding \cup {<<acquired + 1, availableObjects[FirstValid].obj>>}
          /\ s.availableObjects =
               SubSeq(availableObjects, FirstValid + 1, Len(availableObjects))

\* C27 witness: with returnToHead and min 0, two callers got handles 1 and 2 and
\* released them, 1 first: handle 2, released last, is at the head and is the
\* one the next acquire gets.
C27_Witness ==
  /\ factory.returnToHead /\ factory.min = 0
  /\ acquired = 2 /\ Len(served) = 2 /\ holding = {}
  /\ Len(availableObjects) = 2
  /\ availableObjects[1].obj = 2 /\ availableObjects[2].obj = 1
  /\ NoDestroyYet /\ ~draining

\* the idle handles whose idle timeout has passed
ExpiredIdle == {availableObjects[i].obj : i \in {j \in 1..Len(availableObjects) : availableObjects[j].expired}}

\* C28: with refreshIdle true, a sweep on a pool with size <= min destroys the
\* expired idle handles, and replacement creations bring size back to min.
C28_RefreshAtFloor ==
  (factory.refreshIdle /\ removeIdleTimer /\ pendingTicks = 0 /\ ~draining
     /\ count <= factory.min) =>
    LET s == RemoveIdleOp(State)
    IN /\ \A h \in ExpiredIdle : s.destroyCalls[h] = destroyCalls[h] + 1
       /\ s.count = factory.min

\* the positions of the available list whose entry has expired
ExpiredAt == {i \in 1..Len(availableObjects) : availableObjects[i].expired}

\* the handles of the k expired entries nearest the head of the available list
NearestHead(k) ==
  {availableObjects[i].obj : i \in {j \in ExpiredAt : Cardinality({l \in ExpiredAt : l < j}) < k}}

C32_OneTimer ==
  /\ timers = (IF removeIdleTimer THEN 1 ELSE 0)
  /\ timers > 0 => ScheduleRemoveIdle(State) = State
  /\ LET s == DestroyAllNowOp(State, FALSE)
     IN \/ s.timers = 0 /\ ~s.removeIdleTimer
        \/ /\ factory.syncCreate /\ s.timers = 1 /\ s.removeIdleTimer
           /\ s.availableObjects # <<>>
           /\ AvailableHandles(s.availableObjects) \cap AvailableHandles(availableObjects) = {}

\* C32 witness: two handles entered the available set one after the other and
\* one timer is pending: the second arming did nothing.
C32_Witness ==
  /\ Len(availableObjects) = 2
  /\ ~availableObjects[1].expired /\ ~availableObjects[2].expired
  /\ timers = 1 /\ removeIdleTimer /\ removeIdleScheduled
  /\ NoDestroyYet

IdleTooLong == ExpiredIdle # {} /\ count > factory.min

\* C31: with refreshIdle true a handle that is available past its expiry time
\* while size > min does not stay so for ever: the timer is pending whenever
\* the available set is non-empty, so a sweep comes, and after it no expired
\* handle is left in the available set (each was reaped, or dispensed before)
\* or size is down to min.
C31_ExpiredIdleIsReaped == IdleTooLong ~> ~IdleTooLong

\* C31 witness: with min 0 a sweep reaped handle 1 and left handle 2, not yet
\* expired, in the available set; the timer is armed again for it.
C31_Witness ==
  /\ factory.min = 0
  /\ availableObjects = <<[obj |-> 2, expired |-> FALSE]>>
  /\ destroyCalls[1] = 1
  /\ holding = {}
  /\ count = 1 /\ pendingCreates = 0
  /\ timers = 1 /\ removeIdleTimer

\* C34: each pass of the dispenser (the one that ends acquire and release, the
\* one a validateAsync answer resumes, the one of the nextTick after a failed
\* create) starts at most one creation, and starts it only when a waiter is
\* still queued, no handle is available and size was below max. Stated for
\* min = 0, where the creations of _ensureMinimum do not come into it.
C34_OneCreationPerPass ==
  [][(factory.min = 0 /\ (Acquire \/ Release \/ ValidateDone \/ NextTick)) =>
       /\ pendingCreates' - pendingCreates <= 1
       /\ pendingCreates' - pendingCreates = 1 =>
            /\ waitingClients' # <<>>
            /\ availableObjects' = <<>>
            /\ count' - 1 < factory.max]_vars

\* C35: destroy ends by invoking the dispenser: when destroy(h) returns on a
\* pool with waiters queued and size < max, a creation is in flight for the
\* head waiter.
C35_DestroyDispenses ==
  [][\A p \in holding : DestroyOf(p) =>
       ((waitingClients' # <<>> /\ count' < factory.max) => pendingCreates' > 0)]_vars

\* what the answer of validateAsync for handle h does, valid or not
ValidationReports(h) ==
  LET invalid == ValidateCallback(State, h, FALSE)
      valid == ValidateCallback(State, h, TRUE)
      others == SelectSeq(asyncTestObjects, LAMBDA o : o # h)
  IN /\ invalid.destroyCalls[h] = destroyCalls[h] + 1
     /\ h \notin Range(invalid.asyncTestObjects) \cup Range(invalid.inUseObjects)
                \cup AvailableHandles(invalid.availableObjects)
     /\ invalid.holding = holding
     /\ IF availableObjects # <<>>
        THEN /\ invalid.asyncTestObjects = Append(others, Head(availableObjects).obj)
             /\ invalid.availableObjects = Tail(availableObjects)
        ELSE invalid.asyncTestObjects = others
     /\ IF waitingClients # <<>>
        THEN /\ valid.holding = holding \cup {<<Head(waitingClients), h>>}
             /\ valid.waitingClients = Tail(waitingClients)
             /\ h \in Range(valid.inUseObjects)
             /\ h \notin AvailableHandles(valid.availableObjects)
             /\ valid.asyncTestObjects = others
        ELSE /\ valid.holding = holding
             /\ valid.availableObjects = Append(availableObjects, [obj |-> h, expired |-> FALSE])
             /\ valid.asyncTestObjects = others
             /\ valid.pendingCreates = pendingCreates
             /\ valid.destroyCalls = destroyCalls

\* C36: in async-validate mode a handle whose validation is in flight is in the
\* under-validation set and in neither the available nor the in-use set, and no
\* caller holds it; when its validation reports invalid it is destroyed and
\* the pass goes on; when it reports valid it goes to in-use and to the head
\* waiter, or, with no waiter left, back to the available set, and the pass stops.
C36_UnderValidation ==
  \A h \in Range(asyncTestObjects) :
    /\ h \notin AvailableHandles(availableObjects)
    /\ h \notin Range(inUseObjects)
    /\ h \notin Held
    /\ ValidationReports(h)

\* C37: a creation that completes successfully is never lost: with a waiter
\* queued the new handle goes to in-use and to the head waiter; with no waiter
\* queued it is added to the available set, and only there.
C37_CreatedHandleIsPlaced ==
  [][CreateOk =>
       LET h == created + 1
       IN IF waitingClients # <<>>
          THEN /\ holding' = holding \cup {<<Head(waitingClients), h>>}
               /\ waitingClients' = Tail(waitingClients)
               /\ h \in Range(inUseObjects')
               /\ h \notin AvailableHandles(availableObjects')
          ELSE /\ holding' = holding
               /\ h \in AvailableHandles(availableObjects')
               /\ h \notin Range(inUseObjects')
               /\ h \notin Range(asyncTestObjects')]_vars

\* C38: in synchronous-validate mode no waiter is left queued while a handle
\* sits idle: between any two handlers, if a waiter is queued the available
\* set is empty.
C38_NoWaiterWhileIdle ==
  ~factory.validateAsync => (waitingClients # <<>> => availableObjects = <<>>)

\* C38 witness: with max 1 and synchronous validate the only handle has served
\* two callers in turn and is held by the second; a third is queued and
\* nothing is idle.
C38_Witness ==
  /\ ~factory.validateAsync /\ factory.max = 1
  /\ created = 1 /\ NoDestroyYet
  /\ Len(served) = 2 /\ holding = {<<2, 1>>}
  /\ waitingClients = <<3>>
  /\ availableObjects = <<>>

\* the handles the factory has created and that have not been destroyed
LiveHandles == {h \in 1..created : destroyCalls[h] = 0}

\* C39: the number of handles created and not destroyed never exceeds max,
\* also when a caller calls destroy twice on the same handle.
C39_LiveAtMostMax == Cardinality(LiveHandles) <= factory.max

\* C40: the dispenser never moves a handle to in-use without a waiter to
\* receive it: whenever it has taken a valid handle from the available list
\* the waiter queue was non-empty and the callback it shifted from the queue
\* was there to be called, also after an earlier handle of the pass failed
\* validation and the floor creations of its destroy served the waiters.
C40_DispenserHasWaiter == ~threw

====
